---- MODULE Spec2Model ----
(***************************************************************************)
(* A model of voicebox_pytorch/voicebox_pytorch.py: the masking helpers,   *)
(* module construction, the Transformer's skip-connection stack, the       *)
(* VoiceBox forward pass with its loss reduction, classifier-free guidance *)
(* and the conditional-flow-matching wrapper.                              *)
(*                                                                         *)
(* Floating-point tensors are modelled over exact rationals <<n, d>>       *)
(* (d > 0, lowest terms); a 1-D tensor is a sequence, a (batch, seq)       *)
(* tensor a sequence of sequences.  Position p of the source (0-based) is  *)
(* index p + 1 of the sequence.                                            *)
(***************************************************************************)
EXTENDS Integers, Sequences, FiniteSets, TLC

VARIABLES
    mk,     \* last call of a mask construction helper: arguments, draws, result
    ctor,   \* last constructor call: class, configuration, outcome, forwards made
    tf,     \* a Transformer.forward call in progress
    vb,     \* last VoiceBox.forward / forward_with_cond_scale call
    cfm     \* last ConditionalFlowMatcherWrapper.forward call

vars == <<mk, ctor, tf, vb, cfm>>

----------------------------------------------------------------------------
(* Bounds of the model *)

MaxSeqLen == 3      \* sequence lengths 0..MaxSeqLen in the mask helpers
MaxBatch == 2       \* batch sizes 0..MaxBatch in the mask helpers
FracDen == 4        \* frac_lengths are drawn from the grid k / FracDen
RandDen == 4        \* uniform_(0, 1) draws are k / RandDen, 0 <= k < RandDen

----------------------------------------------------------------------------
(* Exact rational arithmetic standing in for float tensors *)

(* An operator's arguments are evaluated each time its body names them;    *)
(* the arithmetic below binds each argument once, as the element of a      *)
(* singleton set, so that nested expressions cost one evaluation each.     *)
Only(S) == CHOOSE v \in S : TRUE

Abs(n) == IF n < 0 THEN -n ELSE n

RECURSIVE GCD(_, _)
GCD(a, b) == Only({IF p[2] = 0 THEN p[1] ELSE GCD(p[2], p[1] % p[2]) : p \in {<<a, b>>}})

Sign(d) == IF d < 0 THEN -1 ELSE 1

\* the rational n / d in lowest terms with a positive denominator
Rat(n, d) ==
    Only({Only({<<(Sign(p[2]) * p[1]) \div g, (Sign(p[2]) * p[2]) \div g>> :
                    g \in {GCD(Abs(p[1]), Abs(p[2]))}}) : p \in {<<n, d>>}})

RInt(n) == <<n, 1>>
\* sums over the least common denominator, products after cancelling across,
\* which keeps the intermediate integers small
RAddOn(a, b, l) == Rat(a[1] * (l \div a[2]) + b[1] * (l \div b[2]), l)
RAdd(a, b) ==
    Only({RAddOn(p[1], p[2], (p[1][2] \div GCD(p[1][2], p[2][2])) * p[2][2]) : p \in {<<a, b>>}})
RNeg(a) == Only({<<-v[1], v[2]>> : v \in {a}})
RSub(a, b) == RAdd(a, RNeg(b))
RMulOn(a, b, g, h) == Rat((a[1] \div g) * (b[1] \div h), (a[2] \div h) * (b[2] \div g))
RMul(a, b) ==
    Only({RMulOn(p[1], p[2], GCD(Abs(p[1][1]), p[2][2]), GCD(Abs(p[2][1]), p[1][2])) :
            p \in {<<a, b>>}})
RDiv(a, b) == RMul(a, Only({Rat(v[2], v[1]) : v \in {b}}))
RLess(a, b) == Only({p[1][1] * p[2][2] < p[2][1] * p[1][2] : p \in {<<a, b>>}})
RLeq(a, b) == Only({p[1][1] * p[2][2] <= p[2][1] * p[1][2] : p \in {<<a, b>>}})
RMax(a, b) == Only({IF RLess(p[1], p[2]) THEN p[2] ELSE p[1] : p \in {<<a, b>>}})

\* the sum of a sequence of rationals
RECURSIVE RSumTo(_, _)
RSumTo(s, n) == IF n = 0 THEN RInt(0) ELSE RAdd(RSumTo(s, n - 1), s[n])

RSum(s) == Only({RSumTo(v, Len(v)) : v \in {s}})

\* Tensor.long(): conversion to int64 truncates toward zero
Long(a) == IF a[1] >= 0 THEN a[1] \div a[2] ELSE -((-a[1]) \div a[2])

\* Python's round(): to the nearest integer, ties to the even one
Round(a) ==
    LET fl == a[1] \div a[2]
        twice == 2 * (a[1] - fl * a[2])
    IN  IF twice < a[2] THEN fl
        ELSE IF twice > a[2] THEN fl + 1
        ELSE IF fl % 2 = 0 THEN fl ELSE fl + 1

Raise(exc) == [kind |-> "raise", exc |-> exc]

----------------------------------------------------------------------------
(* tensor helpers *)

\* prob_mask_like(shape, prob): all True at prob == 1, all False at prob == 0,
\* otherwise uniform draws u < prob; `draws` are the candidate outcomes of
\* the comparison, one boolean tensor per outcome.
ProbMaskLike_AllFalseAtOne(shapeSet, prob, draws) ==
    IF prob = RInt(1) THEN {[i \in shapeSet |-> FALSE]}
    ELSE IF prob = RInt(0) THEN {[i \in shapeSet |-> FALSE]}
    ELSE draws

ProbMaskLike(shapeSet, prob, draws) ==
    IF prob = RInt(1) THEN {[i \in shapeSet |-> TRUE]}
    ELSE IF prob = RInt(0) THEN {[i \in shapeSet |-> FALSE]}
    ELSE draws

----------------------------------------------------------------------------
(* mask construction helpers *)

\* the mutant: the upper comparison made inclusive
MaskFromStartEndIndices_InclusiveEnd(seq_len, start, end) ==
    IF Len(start) # Len(end) THEN Raise("AssertionError")
    ELSE [kind |-> "mask",
          mask |-> [i \in 1..Len(start) |->
                      [q \in 1..seq_len |->
                          /\ (q - 1) >= Long(start[i])
                          /\ (q - 1) <= Long(end[i])]]]

\* mask_from_start_end_indices(seq_len, start, end); start and end are 1-D
MaskFromStartEndIndices(seq_len, start, end) ==
    IF Len(start) # Len(end) THEN Raise("AssertionError")
    ELSE [kind |-> "mask",
          mask |-> [i \in 1..Len(start) |->
                      [q \in 1..seq_len |->
                          /\ (q - 1) >= Long(start[i])
                          /\ (q - 1) < Long(end[i])]]]

\* lengths = (frac_lengths * seq_len).long()
FracLengths(seq_len, frac_lengths) ==
    [i \in 1..Len(frac_lengths) |-> Long(RMul(frac_lengths[i], RInt(seq_len)))]

\* the mutant: the start offset ranges over the whole sequence
MaskFromFracLengths_NoMaxStart(seq_len, frac_lengths, rand) ==
    LET lengths == FracLengths(seq_len, frac_lengths)
        start == [i \in 1..Len(frac_lengths) |->
                    RMax(RMul(RInt(seq_len), rand[i]), RInt(0))]
        end == [i \in 1..Len(frac_lengths) |-> RAdd(start[i], RInt(lengths[i]))]
    IN  MaskFromStartEndIndices(seq_len, start, end)

\* mask_from_frac_lengths(seq_len, frac_lengths); rand is the uniform_(0, 1)
\* tensor drawn at line 84
MaskFromFracLengths(seq_len, frac_lengths, rand) ==
    LET lengths == FracLengths(seq_len, frac_lengths)
        max_start == [i \in 1..Len(frac_lengths) |-> seq_len - lengths[i]]
        start == [i \in 1..Len(frac_lengths) |->
                    RMax(RMul(RInt(max_start[i]), rand[i]), RInt(0))]
        end == [i \in 1..Len(frac_lengths) |-> RAdd(start[i], RInt(lengths[i]))]
    IN  MaskFromStartEndIndices(seq_len, start, end)

\* all 1-D tensors of length 0..n over the values S
Tensors1(S, n) == UNION {[1..k -> S] : k \in 0..n}

IndexValues == {RInt(v) : v \in 0..MaxSeqLen}
FracValues == {Rat(k, FracDen) : k \in 0..FracDen}
RandValues == {Rat(k, RandDen) : k \in 0..(RandDen - 1)}

MkIdle == [op |-> "none"]

\* the helpers are pure: a call starts from no state and leaves none behind
CallMaskFromStartEndIndices ==
    /\ mk = MkIdle
    /\ \E seq_len \in 0..MaxSeqLen :
       \E start \in Tensors1(IndexValues, MaxBatch), end \in Tensors1(IndexValues, MaxBatch) :
        /\ mk' = [op |-> "mask_from_start_end_indices", seq_len |-> seq_len,
                  start |-> start, end |-> end,
                  out |-> MaskFromStartEndIndices(seq_len, start, end)]
        /\ UNCHANGED <<ctor, tf, vb, cfm>>

CallMaskFromFracLengths ==
    /\ mk = MkIdle
    /\ \E seq_len \in 0..MaxSeqLen, b \in 0..MaxBatch :
       \E frac_lengths \in [1..b -> FracValues], rand \in [1..b -> RandValues] :
        /\ mk' = [op |-> "mask_from_frac_lengths", seq_len |-> seq_len,
                  frac_lengths |-> frac_lengths, rand |-> rand,
                  out |-> MaskFromFracLengths(seq_len, frac_lengths, rand)]
        /\ UNCHANGED <<ctor, tf, vb, cfm>>

\* the caller drops the returned mask
MaskReturn ==
    /\ mk # MkIdle
    /\ mk' = MkIdle
    /\ UNCHANGED <<ctor, tf, vb, cfm>>

InitMask ==
    /\ mk = MkIdle
    /\ ctor = [op |-> "none"]
    /\ tf = [pc |-> "idle"]
    /\ vb = [op |-> "none"]
    /\ cfm = [op |-> "none"]

NextMask == CallMaskFromStartEndIndices \/ CallMaskFromFracLengths \/ MaskReturn

SpecMask == InitMask /\ [][NextMask]_vars

----------------------------------------------------------------------------
IsRunOfLength(row, seq_len, len) ==
    /\ Len(row) = seq_len
    /\ \E s \in 0..seq_len :
         /\ s + len <= seq_len
         /\ \A p \in 0..(seq_len - 1) : row[p + 1] = (s <= p /\ p < s + len)

FracInRange(f) == RLess(RInt(0), f) /\ RLeq(f, RInt(1))

(* C2 as stated: for seq_len >= 1 and frac_lengths in (0, 1], every item   *)
(* of mask_from_frac_lengths is a single contiguous run of True of length  *)
(* round(frac_lengths[i] * seq_len) inside [0, seq_len).                   *)
C2_RunLengthIsRounded ==
    (/\ mk.op = "mask_from_frac_lengths"
     /\ mk.seq_len >= 1
     /\ \A i \in 1..Len(mk.frac_lengths) : FracInRange(mk.frac_lengths[i]))
    => /\ mk.out.kind = "mask"
       /\ \A i \in 1..Len(mk.frac_lengths) :
            IsRunOfLength(mk.out.mask[i], mk.seq_len,
                          Round(RMul(mk.frac_lengths[i], RInt(mk.seq_len))))

(* C2 amended: for seq_len >= 1 and frac_lengths in (0, 1], every item of  *)
(* mask_from_frac_lengths is a single contiguous run of True, possibly     *)
(* empty, of length frac_lengths[i] * seq_len truncated toward zero,       *)
(* inside [0, seq_len); all other positions are False.                     *)
C2_RunLengthIsTruncated ==
    (/\ mk.op = "mask_from_frac_lengths"
     /\ mk.seq_len >= 1
     /\ \A i \in 1..Len(mk.frac_lengths) : FracInRange(mk.frac_lengths[i]))
    => /\ mk.out.kind = "mask"
       /\ Len(mk.out.mask) = Len(mk.frac_lengths)
       /\ \A i \in 1..Len(mk.frac_lengths) :
            \E len \in 0..mk.seq_len :
              /\ len * mk.frac_lengths[i][2] <= mk.frac_lengths[i][1] * mk.seq_len
              /\ mk.frac_lengths[i][1] * mk.seq_len < (len + 1) * mk.frac_lengths[i][2]
              /\ IsRunOfLength(mk.out.mask[i], mk.seq_len, len)

\* a run that starts after position 0 and whose length was truncated
C2_Witness ==
    /\ mk.op = "mask_from_frac_lengths"
    /\ mk.seq_len = 3 /\ Len(mk.frac_lengths) = 2
    /\ mk.frac_lengths[1] = Rat(1, 2) /\ mk.rand[1] = Rat(3, 4)
    /\ mk.frac_lengths[2] = Rat(1, 1)
    /\ mk.out.kind = "mask"
    /\ mk.out.mask[1] = <<FALSE, TRUE, FALSE>>
    /\ mk.out.mask[2] = <<TRUE, TRUE, TRUE>>

----------------------------------------------------------------------------
(* Module construction *)

MaxDim == 4          \* dim ranges over 1..MaxDim
MaxDepth == 4        \* depth ranges over 0..MaxDepth
MaxKernel == 4       \* conv_pos_embed_kernel_size ranges over 1..MaxKernel
MaxForwards == 2     \* forward calls counted on one constructed module

divisible_by(num, den) == (num % den) = 0
is_odd(n) == ~divisible_by(n, 2)

Ok == [kind |-> "ok"]
RaiseAt(exc, at) == [kind |-> "raise", exc |-> exc, at |-> at]

\* LearnedSinusoidalPosEmb.__init__: assert divisible_by(dim, 2)
NewLearnedSinusoidalPosEmb(dim) ==
    IF ~divisible_by(dim, 2) THEN RaiseAt("AssertionError", "LearnedSinusoidalPosEmb")
    ELSE Ok

\* ConvPositionEmbed.__init__: assert is_odd(kernel_size)
NewConvPositionEmbed(dim, kernel_size) ==
    IF ~is_odd(kernel_size) THEN RaiseAt("AssertionError", "ConvPositionEmbed")
    ELSE Ok

\* the layer list built by Transformer.__init__: layer l (1-indexed) has a
\* skip combiner iff l > depth // 2
TransformerLayers(depth) == [l \in 1..depth |-> [has_skip |-> l > (depth \div 2)]]

\* the mutant: the depth check left out
NewTransformer_NoDepthCheck(dim, depth) == Ok

\* Transformer.__init__: assert divisible_by(depth, 2)
NewTransformer(dim, depth) ==
    IF ~divisible_by(depth, 2) THEN RaiseAt("AssertionError", "Transformer")
    ELSE Ok

\* VoiceBox.__init__ builds sinu_pos_emb, conv_embed and transformer in this
\* order; the first failing sub-constructor raises out of it
NewVoiceBox(dim, depth, kernel_size) ==
    IF NewLearnedSinusoidalPosEmb(dim).kind = "raise" THEN NewLearnedSinusoidalPosEmb(dim)
    ELSE IF NewConvPositionEmbed(dim, kernel_size).kind = "raise"
         THEN NewConvPositionEmbed(dim, kernel_size)
    ELSE IF NewTransformer(dim, depth).kind = "raise" THEN NewTransformer(dim, depth)
    ELSE Ok

\* DurationPredictor.__init__ builds conv_embed and transformer, then to_pred
\* with Rearrange('... 1 -> ...'): the name Rearrange is bound nowhere in the
\* module (einops contributes rearrange, repeat, reduce, pack, unpack only)
NewDurationPredictor(dim, depth, kernel_size) ==
    IF NewConvPositionEmbed(dim, kernel_size).kind = "raise"
    THEN NewConvPositionEmbed(dim, kernel_size)
    ELSE IF NewTransformer(dim, depth).kind = "raise" THEN NewTransformer(dim, depth)
    ELSE RaiseAt("NameError", "Rearrange")

\* DurationPredictor.forward with target = None: the mask is constructed when
\* it is not given, so line 390 is reached, and both line 388 and line 390
\* hand target = None to F.l1_loss, which reads target.size()
DurationPredictorForwardNoTarget(mask_exists) ==
    IF ~mask_exists THEN Raise("AttributeError")
    ELSE Raise("AttributeError")

CtorIdle == [op |-> "none"]

Dims == 1..MaxDim
Depths == 0..MaxDepth
Kernels == 1..MaxKernel

ConstructLearnedSinusoidalPosEmb ==
    /\ ctor = CtorIdle
    /\ \E dim \in Dims :
         ctor' = [op |-> "new", klass |-> "LearnedSinusoidalPosEmb",
                  cfg |-> [dim |-> dim],
                  out |-> NewLearnedSinusoidalPosEmb(dim), forwards |-> 0]
    /\ UNCHANGED <<mk, tf, vb, cfm>>

ConstructConvPositionEmbed ==
    /\ ctor = CtorIdle
    /\ \E dim \in Dims, kernel_size \in Kernels :
         ctor' = [op |-> "new", klass |-> "ConvPositionEmbed",
                  cfg |-> [dim |-> dim, kernel_size |-> kernel_size],
                  out |-> NewConvPositionEmbed(dim, kernel_size), forwards |-> 0]
    /\ UNCHANGED <<mk, tf, vb, cfm>>

ConstructTransformer ==
    /\ ctor = CtorIdle
    /\ \E dim \in Dims, depth \in Depths :
         ctor' = [op |-> "new", klass |-> "Transformer",
                  cfg |-> [dim |-> dim, depth |-> depth],
                  out |-> NewTransformer(dim, depth), forwards |-> 0]
    /\ UNCHANGED <<mk, tf, vb, cfm>>

ConstructVoiceBox ==
    /\ ctor = CtorIdle
    /\ \E dim \in Dims, depth \in Depths, kernel_size \in Kernels :
         ctor' = [op |-> "new", klass |-> "VoiceBox",
                  cfg |-> [dim |-> dim, depth |-> depth, kernel_size |-> kernel_size],
                  out |-> NewVoiceBox(dim, depth, kernel_size), forwards |-> 0]
    /\ UNCHANGED <<mk, tf, vb, cfm>>

ConstructDurationPredictor ==
    /\ ctor = CtorIdle
    /\ \E dim \in Dims, depth \in Depths, kernel_size \in Kernels :
         ctor' = [op |-> "new", klass |-> "DurationPredictor",
                  cfg |-> [dim |-> dim, depth |-> depth, kernel_size |-> kernel_size],
                  out |-> NewDurationPredictor(dim, depth, kernel_size), forwards |-> 0]
    /\ UNCHANGED <<mk, tf, vb, cfm>>

\* a forward call needs the module object: only a constructor that returned
\* yields one.  The spec of what each forward computes is in the sections
\* below; here the call is counted, and for a DurationPredictor called with
\* no target its outcome recorded.
ModuleForward ==
    /\ ctor # CtorIdle
    /\ ctor.out.kind = "ok"
    /\ ctor.forwards < MaxForwards
    /\ ctor' = [ctor EXCEPT !.forwards = @ + 1,
                         !.out = IF ctor.klass = "DurationPredictor"
                                 THEN [kind |-> "ok",
                                       ret |-> DurationPredictorForwardNoTarget(TRUE)]
                                 ELSE @]
    /\ UNCHANGED <<mk, tf, vb, cfm>>

\* the object (or the exception) goes out of scope
CtorDiscard ==
    /\ ctor # CtorIdle
    /\ ctor' = CtorIdle
    /\ UNCHANGED <<mk, tf, vb, cfm>>

InitConstruct == InitMask

NextConstruct ==
    \/ ConstructLearnedSinusoidalPosEmb
    \/ ConstructConvPositionEmbed
    \/ ConstructTransformer
    \/ ConstructVoiceBox
    \/ ConstructDurationPredictor
    \/ ModuleForward
    \/ CtorDiscard

SpecConstruct == InitConstruct /\ [][NextConstruct]_vars

Has(field) == ctor # CtorIdle /\ field \in DOMAIN ctor.cfg

\* the configuration of the constructor call passes the three parity checks
\* that apply to its class
ValidConfig ==
    /\ ("depth" \in DOMAIN ctor.cfg => ctor.cfg.depth % 2 = 0)
    /\ ("kernel_size" \in DOMAIN ctor.cfg => ctor.cfg.kernel_size % 2 = 1)
    /\ (ctor.klass \in {"LearnedSinusoidalPosEmb", "VoiceBox"} => ctor.cfg.dim % 2 = 0)

(* C4 as stated: constructing a DurationPredictor with a valid             *)
(* configuration succeeds, and forward called on it with no target         *)
(* returns the raw predictions, one scalar per position, not an error.     *)
C4_DurationPredictorNoTargetReturnsPredictions ==
    (ctor # CtorIdle /\ ctor.klass = "DurationPredictor" /\ ValidConfig)
    => /\ ctor.out.kind = "ok"
       /\ (ctor.forwards > 0 => ctor.out.ret.kind = "predictions")

(* C9: an odd transformer depth, an odd dimension of the learned           *)
(* sinusoidal embedding and an even convolution kernel size each make the  *)
(* constructor raise, so no forward call is ever made on such a module;    *)
(* with all three valid no constructor fails on one of these checks.       *)
C9_ConfigRejectedAtConstruction ==
    ctor # CtorIdle =>
      /\ (Has("depth") /\ ctor.cfg.depth % 2 = 1) => ctor.out.kind = "raise"
      /\ (ctor.klass \in {"LearnedSinusoidalPosEmb", "VoiceBox"} /\ ctor.cfg.dim % 2 = 1)
            => ctor.out.kind = "raise"
      /\ (Has("kernel_size") /\ ctor.cfg.kernel_size % 2 = 0) => ctor.out.kind = "raise"
      /\ ctor.out.kind = "raise" => ctor.forwards = 0
      /\ ValidConfig => ~(ctor.out.kind = "raise" /\ ctor.out.exc = "AssertionError")

\* a VoiceBox whose only invalid value is an odd depth is rejected, unused
C9_Witness ==
    /\ ctor # CtorIdle /\ ctor.klass = "VoiceBox"
    /\ ctor.cfg.dim = 2 /\ ctor.cfg.kernel_size = 3 /\ ctor.cfg.depth = 3
    /\ ctor.out = RaiseAt("AssertionError", "Transformer")
    /\ ctor.forwards = 0

----------------------------------------------------------------------------
(* Transformer.forward: the skip-connection stack *)

MaxTfBatch == 2      \* batch sizes 1..MaxTfBatch of the Transformer input
MaxTfSeq == 2        \* sequence lengths 1..MaxTfSeq of the Transformer input

(* The tensor x is followed by the layer that produced it: 0 is the input  *)
(* of forward, l >= 1 the value of x at the end of iteration l, that is    *)
(* ff(x) + x of layer l: the output of layer l.                            *)

\* skip_connects.append(x)
SkipPush(skip_connects, x) == Append(skip_connects, x)

\* the mutant: the oldest entry is taken
SkipPop_First(skip_connects) ==
    [val |-> Head(skip_connects), rest |-> Tail(skip_connects)]

\* skip_connects.pop(): the last entry
SkipPop(skip_connects) ==
    [val |-> skip_connects[Len(skip_connects)],
     rest |-> SubSeq(skip_connects, 1, Len(skip_connects) - 1)]

\* torch.cat((x, skip), dim = -1) on shapes: the last dimensions add up
CatLastDim(s, t) == <<s[1], s[2], s[3] + t[3]>>

\* nn.Linear(dim * 2, dim) on a shape: the last dimension must be dim * 2
SkipCombiner(dim, s) ==
    IF s[3] = dim * 2 THEN <<s[1], s[2], dim>> ELSE Raise("RuntimeError")

TfIdle == [pc |-> "idle"]

\* forward entered on a constructed Transformer: skip_connects = []
TransformerForwardEnter ==
    /\ tf = TfIdle
    /\ \E dim \in Dims, depth \in Depths, b \in 1..MaxTfBatch, n \in 1..MaxTfSeq :
         /\ NewTransformer(dim, depth).kind = "ok"
         /\ tf' = [pc |-> "loop", dim |-> dim, depth |-> depth,
                   layers |-> TransformerLayers(depth),
                   in_shape |-> <<b, n, dim>>, shape |-> <<b, n, dim>>,
                   li |-> 1, x |-> 0, skip_connects |-> <<>>,
                   pushed |-> <<>>, popped |-> <<>>]
    /\ UNCHANGED <<mk, ctor, vb, cfm>>

\* an iteration whose skip_combiner is None: x is pushed as it enters the
\* layer, then x = attn(x) + x, x = ff(x) + x
EncoderLayer ==
    /\ tf.pc = "loop" /\ tf.li <= tf.depth
    /\ ~tf.layers[tf.li].has_skip
    /\ tf' = [tf EXCEPT !.skip_connects = SkipPush(@, tf.x),
                        !.pushed = Append(@, tf.x),
                        !.x = tf.li,
                        !.li = @ + 1]
    /\ UNCHANGED <<mk, ctor, vb, cfm>>

\* an iteration with a skip_combiner: x = cat((x, skip_connects.pop())),
\* of width 2 * dim, projected back to dim, then attention and feed-forward
DecoderLayer ==
    /\ tf.pc = "loop" /\ tf.li <= tf.depth
    /\ tf.layers[tf.li].has_skip
    /\ IF tf.skip_connects = <<>>
       THEN tf' = [tf EXCEPT !.pc = "raise"]
       ELSE tf' = [tf EXCEPT !.skip_connects = SkipPop(@).rest,
                             !.popped = Append(@, SkipPop(tf.skip_connects).val),
                             !.shape = SkipCombiner(tf.dim, CatLastDim(@, tf.in_shape)),
                             !.x = tf.li,
                             !.li = @ + 1]
    /\ UNCHANGED <<mk, ctor, vb, cfm>>

\* return self.final_norm(x)
TransformerForwardReturn ==
    /\ tf.pc = "loop" /\ tf.li > tf.depth
    /\ tf' = [tf EXCEPT !.pc = "done"]
    /\ UNCHANGED <<mk, ctor, vb, cfm>>

TfDiscard ==
    /\ tf.pc \in {"done", "raise"}
    /\ tf' = TfIdle
    /\ UNCHANGED <<mk, ctor, vb, cfm>>

InitTransformer == InitMask

NextTransformer ==
    \/ TransformerForwardEnter
    \/ EncoderLayer
    \/ DecoderLayer
    \/ TransformerForwardReturn
    \/ TfDiscard

SpecTransformer == InitTransformer /\ [][NextTransformer]_vars

Half == tf.depth \div 2

(* C10 as stated: encoder layer l (1..D/2) pushes its own output, and      *)
(* decoder layer D/2 + k pops the output of encoder layer D/2 - k + 1.     *)
C10_DecoderPopsEncoderOutput ==
    tf.pc \in {"loop", "done"} =>
      /\ \A l \in 1..Len(tf.pushed) : tf.pushed[l] = l
      /\ \A k \in 1..Len(tf.popped) : tf.popped[k] = Half - k + 1

(* C10 amended: with even depth D >= 2, each of the first D/2 (encoder)    *)
(* layers pushes the state that enters it (the output of the layer before  *)
(* it, the input of forward for layer 1) onto the skip stack before its    *)
(* attention and feed-forward, and decoder layer D/2 + k (k = 1..D/2)      *)
(* pops and concatenates the value pushed by encoder layer D/2 - k + 1:    *)
(* the decoder layers consume the pushed values in reverse order, one      *)
(* each, and the stack is empty when forward returns.                      *)
C10_DecoderPopsEncoderInput ==
    (tf.pc \in {"loop", "done"} /\ tf.depth >= 2) =>
      /\ Len(tf.pushed) = (IF tf.li - 1 <= Half THEN tf.li - 1 ELSE Half)
      /\ Len(tf.popped) = (IF tf.li - 1 <= Half THEN 0 ELSE tf.li - 1 - Half)
      /\ \A l \in 1..Len(tf.pushed) : tf.pushed[l] = l - 1
      /\ \A k \in 1..Len(tf.popped) :
            /\ tf.popped[k] = tf.pushed[Half - k + 1]
            /\ tf.popped[k] = Half - k
      /\ Len(tf.skip_connects) = Len(tf.pushed) - Len(tf.popped)
      /\ (tf.pc = "done" => /\ tf.skip_connects = <<>>
                            /\ Len(tf.popped) = Half
                            /\ tf.shape = tf.in_shape)

\* a depth-4 forward that has returned: layer 3 took what layer 2 pushed,
\* layer 4 what layer 1 pushed
C10_Witness ==
    /\ tf.pc = "done" /\ tf.depth = 4
    /\ tf.pushed = <<0, 1>>
    /\ tf.popped = <<1, 0>>

----------------------------------------------------------------------------
(* VoiceBox.forward *)

MaxElems == 4           \* cond has shape (batch, seq_len, dim), batch * seq_len <= MaxElems
NumPhonemeTokens == 2   \* phoneme ids 0..NumPhonemeTokens-1; the null id is NumPhonemeTokens
TimeDen == 2            \* times are drawn from the grid k / TimeDen
MaxValue == 1           \* tensor entries are integers in -MaxValue..MaxValue

None == <<>>            \* an absent optional argument

\* shapes (batch, seq_len, dim) of cond; dim is even, as VoiceBox requires
FwdShapes ==
    {sh \in (1..MaxElems) \X (1..MaxElems) \X {d \in Dims : d % 2 = 0} :
        sh[1] * sh[2] <= MaxElems /\ sh[1] * sh[2] * sh[3] <= 2 * MaxElems}

SmallShapes == {sh \in FwdShapes : sh[1] * sh[2] * sh[3] <= MaxElems}

\* (batch, seq_len, dim) tensors: one value everywhere but at one corner
Tensors3(sh, V) ==
    {[b \in 1..sh[1] |-> [q \in 1..sh[2] |-> [c \in 1..sh[3] |->
          IF <<b, q, c>> = hot THEN v ELSE u]]] :
      u \in V, v \in V, hot \in {<<1, 1, 1>>, <<sh[1], sh[2], sh[3]>>}}

Const3(sh, v) == [b \in 1..sh[1] |-> [q \in 1..sh[2] |-> [c \in 1..sh[3] |-> v]]]

\* (batch, seq_len) tensors of the same family
Tensors2(sh, V) ==
    {[b \in 1..sh[1] |-> [q \in 1..sh[2] |-> IF <<b, q>> = hot THEN v ELSE u]] :
      u \in V, v \in V, hot \in {<<1, 1>>, <<sh[1], sh[2]>>}}

\* (batch,) tensors of the same family
Family1(n, V) ==
    {[b \in 1..n |-> IF b = hot THEN v ELSE u] : u \in V, v \in V, hot \in {1, n}}

Masks2(sh) == [1..sh[1] -> [1..sh[2] -> BOOLEAN]]

Values == {RInt(v) : v \in (-MaxValue)..MaxValue}
TimeGrid == {Rat(k, TimeDen) : k \in 0..TimeDen}

\* times as the callers pass it: a 0-dim tensor, or a vector of one element
\* or of one value per batch item
Scalar(t) == [ndim |-> 0, item |-> t]
Vector(v) == [ndim |-> 1, vec |-> v]

(* The learned parameters.  The layers themselves (embedding, linear,      *)
(* convolution, attention) are opaque to this model: each is a fixed       *)
(* function of its input and of the parameters, represented by an affine   *)
(* map with the weights below, shape for shape as in the source.           *)
Nets ==
    {[wx |-> 1, wp |-> 1, wc |-> 1, wt |-> 1, null_cond |-> 0],
     [wx |-> 2, wp |-> -1, wc |-> 3, wt |-> 0, null_cond |-> 2]}

\* constructor defaults of VoiceBox
p_drop_prob == Rat(3, 10)
frac_lengths_mask == <<Rat(7, 10), RInt(1)>>
null_phoneme_id == NumPhonemeTokens

\* lines 484-488: a 0-dim or 1-element times is repeated over the batch
BroadcastTimes(times, batch) ==
    IF times.ndim = 0 THEN [b \in 1..batch |-> times.item]
    ELSE IF Len(times.vec) = 1 THEN [b \in 1..batch |-> times.vec[1]]
    ELSE times.vec

\* lines 492-497: the mask is constructed if not given; rnd holds the draws:
\* coin_flip(), then frac_lengths and rand, or the Bernoulli tensor bern
ConstructMask(mask, seq_len, rnd) ==
    IF mask # None THEN mask
    ELSE IF rnd.coin
         THEN MaskFromFracLengths(seq_len, rnd.frac_lengths, rnd.rand).mask
         ELSE rnd.bern

\* lines 501-509: torch.where of the per-item cond_drop_mask over cond,
\* skipped unless cond_drop_prob > 0
DropCond(net, cond, cond_drop_prob, drop) ==
    IF RLess(RInt(0), cond_drop_prob)
    THEN [b \in 1..Len(cond) |-> [q \in 1..Len(cond[b]) |-> [c \in 1..Len(cond[b][q]) |->
            IF drop[b] THEN RInt(net.null_cond) ELSE cond[b][q][c]]]]
    ELSE cond

\* the mutant: the decision of the first item is applied to every item
DropPhonemes_FirstItem(phoneme_ids, cond_drop_prob, drop) ==
    IF RLess(RInt(0), cond_drop_prob)
    THEN [b \in 1..Len(phoneme_ids) |-> [q \in 1..Len(phoneme_ids[b]) |->
            IF drop[1] THEN null_phoneme_id ELSE phoneme_ids[b][q]]]
    ELSE phoneme_ids

\* lines 501, 510-514: the same cond_drop_mask over phoneme_ids
DropPhonemes(phoneme_ids, cond_drop_prob, drop) ==
    IF RLess(RInt(0), cond_drop_prob)
    THEN [b \in 1..Len(phoneme_ids) |-> [q \in 1..Len(phoneme_ids[b]) |->
            IF drop[b] THEN null_phoneme_id ELSE phoneme_ids[b][q]]]
    ELSE phoneme_ids

\* lines 516-520: phoneme embedding, cat((x, phoneme_emb, cond)), to_embed,
\* conv_embed(x) + x
Embed(net, x, phoneme_ids, cond) ==
    [b \in 1..Len(x) |-> [q \in 1..Len(x[b]) |-> [c \in 1..Len(x[b][q]) |->
        RAdd(RAdd(RMul(RInt(net.wx), x[b][q][c]),
                  RInt(net.wp * (phoneme_ids[b][q] + 1))),
             RMul(RInt(net.wc), cond[b][q][c]))]]]

\* line 524: sinu_pos_emb(times), one vector of width dim per batch item
TimeEmb(net, t, dim) == [c \in 1..dim |-> RMul(RInt(net.wt), t)]

\* line 529: the transformer over the packed sequence; every position
\* attends to the time position in front
Attend(packed) ==
    Only({[q \in 1..Len(pk) |-> [c \in 1..Len(pk[q]) |->
              IF q = 1 THEN pk[1][c] ELSE RAdd(pk[q][c], pk[1][c])]] : pk \in {packed}})

\* lines 524-535: the time embedding is packed in front of the sequence, the
\* transformer and to_pred run over seq_len + 1 positions, and unpack drops
\* the first position again
Backbone(net, h, times) ==
    [b \in 1..Len(h) |->
        Tail(Attend(<<TimeEmb(net, times[b], Len(h[b][1]))>> \o h[b]))]

SqErr(a, t) == Only({RMul(e, e) : e \in {RSub(a, t)}})

\* F.mse_loss(x, target): the mean over every element
MseLossMean(x, target) ==
    RDiv(RSum([b \in 1..Len(x) |-> RSum([q \in 1..Len(x[b]) |->
                 RSum([c \in 1..Len(x[b][q]) |-> SqErr(x[b][q][c], target[b][q][c])])])]),
         RInt(Len(x) * Len(x[1]) * Len(x[1][1])))

\* lines 545-547: the squared error, averaged over the channels
PerPositionLoss(x, target) ==
    [b \in 1..Len(x) |-> [q \in 1..Len(x[b]) |->
        RDiv(RSum([c \in 1..Len(x[b][q]) |-> SqErr(x[b][q][c], target[b][q][c])]),
             RInt(Len(x[b][q])))]]

CountTrue(row) == Cardinality({q \in 1..Len(row) : row[q]})

\* the floor of the denominator, 1e-5
DenFloor == Rat(1, 100000)

\* lines 548-554 for one batch item: masked_fill(mask, 0.), the sum over the
\* positions, divided by mask.sum(dim = -1).clamp(min = 1e-5) (clamp promotes
\* the integer count to float)
ItemMaskedMean(loss_row, mask_row) ==
    RDiv(RSum([q \in 1..Len(loss_row) |->
                 IF mask_row[q] THEN RInt(0) ELSE loss_row[q]]),
         RMax(RInt(CountTrue(mask_row)), DenFloor))

\* lines 548-556: the per-item masked means, then loss.mean() over the batch
MaskedMean(loss, mask) ==
    Only({RDiv(RSum([b \in 1..Len(l) |-> ItemMaskedMean(l[b], mask[b])]), RInt(Len(l))) :
            l \in {loss}})

\* lines 539-556; x is the prediction, mask the mask after lines 492-497
VoiceBoxLoss(x, target, mask) ==
    IF target = None THEN [kind |-> "logits", val |-> x]
    ELSE IF mask = None THEN [kind |-> "loss", val |-> MseLossMean(x, target)]
    ELSE [kind |-> "loss", val |-> MaskedMean(PerPositionLoss(x, target), mask)]

\* VoiceBox.forward(x, phoneme_ids, cond, times, cond_drop_prob, target, mask);
\* the result holds what forward returned (ret) with the mask, times,
\* conditioning and phoneme ids as forward prepared them and the output of
\* to_pred (pred)
VoiceBoxForward(net, x, phoneme_ids, cond, times, cond_drop_prob, target, mask, rnd) ==
    Only({Only({[times |-> a.times, mask |-> a.mask, cond |-> a.cond,
                 phoneme_ids |-> a.phoneme_ids, pred |-> pred,
                 ret |-> VoiceBoxLoss(pred, target, a.mask)] :
                   pred \in {Backbone(net, Embed(net, x, a.phoneme_ids, a.cond), a.times)}}) :
            a \in {[times |-> BroadcastTimes(times, Len(cond)),
                    mask |-> ConstructMask(mask, Len(cond[1]), rnd),
                    cond |-> DropCond(net, cond, cond_drop_prob, rnd.drop),
                    phoneme_ids |-> DropPhonemes(phoneme_ids, cond_drop_prob, rnd.drop)]}})

\* the random draws one forward call can make
FracDraws ==
    {f \in FracValues : RLeq(frac_lengths_mask[1], f) /\ RLess(f, frac_lengths_mask[2])}

Index2(sh) == (1..sh[1]) \X (1..sh[2])

Nest2(sh, m) == [b \in 1..sh[1] |-> [q \in 1..sh[2] |-> m[<<b, q>>]]]

\* the draws of lines 492-497; a mask that was given makes none, and with no
\* target the constructed mask is never read, so that one draw stands for all
MaskDraws(sh, target, mask) ==
    IF mask # None \/ target = None THEN {[coin |-> FALSE, bern |-> Nest2(sh, [i \in Index2(sh) |-> FALSE])]}
    ELSE {[coin |-> TRUE, frac_lengths |-> f, rand |-> r] :
             f \in Family1(sh[1], FracDraws), r \in Family1(sh[1], RandValues)}
         \cup {[coin |-> FALSE, bern |-> Nest2(sh, m)] :
                 m \in ProbMaskLike(Index2(sh), p_drop_prob, [Index2(sh) -> BOOLEAN])}

\* the draw of line 502
DropDraws(sh, cond_drop_prob) ==
    ProbMaskLike(1..sh[1], cond_drop_prob, [1..sh[1] -> BOOLEAN])

Draws(sh, target, mask, cond_drop_prob) ==
    {[k \in DOMAIN md \cup {"drop"} |-> IF k = "drop" THEN dd ELSE md[k]] :
        md \in MaskDraws(sh, target, mask), dd \in DropDraws(sh, cond_drop_prob)}

VbIdle == [op |-> "none"]

\* a training call of forward: a target, and a mask or none
CallVoiceBoxForward ==
    /\ vb = VbIdle
    /\ \E sh \in FwdShapes, net \in Nets :
       \E x \in {Const3(sh, RInt(0)), Const3(sh, RInt(1))},
          phoneme_ids \in {[b \in 1..sh[1] |-> [q \in 1..sh[2] |-> 0]]},
          cond \in {Const3(sh, RInt(1))},
          times \in {Scalar(Rat(1, TimeDen))},
          cond_drop_prob \in {RInt(0)},
          target \in Tensors3(sh, Values),
          mask \in Masks2(sh) \cup {None} :
       \E rnd \in Draws(sh, target, mask, cond_drop_prob) :
         vb' = [op |-> "forward", net |-> net, x |-> x, target |-> target,
                mask_arg |-> mask,
                out |-> VoiceBoxForward(net, x, phoneme_ids, cond, times,
                                        cond_drop_prob, target, mask, rnd)]
    /\ UNCHANGED <<mk, ctor, tf, cfm>>

VbReturn ==
    /\ vb # VbIdle
    /\ vb' = VbIdle
    /\ UNCHANGED <<mk, ctor, tf, cfm>>

InitLoss == InitMask

NextLoss == CallVoiceBoxForward \/ VbReturn

SpecLoss == InitLoss /\ [][NextLoss]_vars

AllFalse(mask) == \A b \in 1..Len(mask) : \A q \in 1..Len(mask[b]) : ~mask[b][q]
AllTrue(mask) == \A b \in 1..Len(mask) : \A q \in 1..Len(mask[b]) : mask[b][q]

\* the mean over the positions of the per-position losses, batch-averaged
FullSequenceLoss(loss) ==
    RDiv(RSum([b \in 1..Len(loss) |-> RDiv(RSum(loss[b]), RInt(Len(loss[b])))]),
         RInt(Len(loss)))

(* C3 as stated: in forward with a target and an explicit mask, (a) an     *)
(* all-False mask gives the unmasked full-sequence loss, and (b) an        *)
(* all-True mask gives a defined loss whose denominator is mask.sum        *)
(* clamped below at 1e-5.                                                  *)
C3_MaskedLossInvariant ==
    (vb.op = "forward" /\ vb.mask_arg # None) =>
      /\ vb.out.ret.kind = "loss"
      /\ AllFalse(vb.mask_arg) =>
            vb.out.ret.val = FullSequenceLoss(PerPositionLoss(vb.out.pred, vb.target))
      /\ AllTrue(vb.mask_arg) =>
            vb.out.ret.val = RDiv(RSum([b \in 1..Len(vb.target) |->
                                      RDiv(RInt(0), RMax(RInt(Len(vb.target[b])), DenFloor))]),
                                  RInt(Len(vb.target)))

\* part (b) of C3 alone, which the code satisfies
C3b_AllTrueMaskDefined ==
    (vb.op = "forward" /\ vb.mask_arg # None /\ AllTrue(vb.mask_arg)) =>
      /\ vb.out.ret.kind = "loss"
      /\ vb.out.ret.val = RInt(0)

(* C8 as stated: forward with a target and mask = None returns the plain   *)
(* mean-squared error between prediction and target over all positions    *)
(* and channels, with no masking applied.                                  *)
C8_NoMaskPlainMse ==
    (vb.op = "forward" /\ vb.mask_arg = None) =>
      /\ vb.out.ret.kind = "loss"
      /\ vb.out.ret.val = MseLossMean(vb.out.pred, vb.target)

----------------------------------------------------------------------------
(* VoiceBox.forward_with_cond_scale *)

MaxScaleNum == 4        \* cond_scale ranges over k / 2, k in 0..MaxScaleNum

CondScales == {Rat(k, 2) : k \in 0..MaxScaleNum}

ShapeOf(t) == <<Len(t), Len(t[1]), Len(t[1][1])>>

\* null_logits + (logits - null_logits) * cond_scale, elementwise
Guide(logits, null_logits, cond_scale) ==
    [b \in 1..Len(logits) |-> [q \in 1..Len(logits[b]) |-> [c \in 1..Len(logits[b][q]) |->
        RAdd(null_logits[b][q][c],
             RMul(RSub(logits[b][q][c], null_logits[b][q][c]), cond_scale))]]]

\* what one forward call made by forward_with_cond_scale was given and returned
CallRecord(cond_drop_prob, out) ==
    [cond_drop_prob |-> cond_drop_prob, cond |-> out.cond,
     phoneme_ids |-> out.phoneme_ids, ret |-> out.ret]

\* the mutant: the unconditional pass is always made
ForwardWithCondScale_NoShortCut(net, x, phoneme_ids, cond, times, cond_scale, rnd0, rnd1) ==
    Only({[calls |-> <<CallRecord(RInt(0), first), CallRecord(RInt(1), second)>>,
           ret |-> Guide(first.ret.val, second.ret.val, cond_scale)] :
            first \in {VoiceBoxForward(net, x, phoneme_ids, cond, times, RInt(0),
                                       None, None, rnd0)},
            second \in {VoiceBoxForward(net, x, phoneme_ids, cond, times, RInt(1),
                                        None, None, rnd1)}})

\* VoiceBox.forward_with_cond_scale(x, phoneme_ids, cond, times, cond_scale):
\* forward with cond_drop_prob = 0., returned as it is when cond_scale == 1.,
\* else forward with cond_drop_prob = 1. and the two results combined.  rnd0
\* and rnd1 are the draws of the two forward calls.
ForwardWithCondScale(net, x, phoneme_ids, cond, times, cond_scale, rnd0, rnd1) ==
    Only({IF cond_scale = RInt(1)
          THEN [calls |-> <<CallRecord(RInt(0), first)>>, ret |-> first.ret.val]
          ELSE Only({[calls |-> <<CallRecord(RInt(0), first), CallRecord(RInt(1), second)>>,
                      ret |-> Guide(first.ret.val, second.ret.val, cond_scale)] :
                        second \in {VoiceBoxForward(net, x, phoneme_ids, cond, times, RInt(1),
                                                    None, None, rnd1)}}) :
            first \in {VoiceBoxForward(net, x, phoneme_ids, cond, times, RInt(0),
                                       None, None, rnd0)}})

\* a call as sample() makes it: no target and no mask among the keyword
\* arguments
CallForwardWithCondScale ==
    /\ vb = VbIdle
    /\ \E sh \in FwdShapes, net \in Nets, cond_scale \in CondScales :
       \E x \in {Const3(sh, RInt(1))},
          phoneme_ids \in {ids \in Tensors2(sh, 0..(NumPhonemeTokens - 1)) : ids[1][1] = 0},
          cond \in {z \in Tensors3(sh, {RInt(0), RInt(1)}) : z[1][1][1] = RInt(1)},
          times \in {Scalar(t) : t \in TimeGrid}
                    \cup {Vector(<<RInt(1)>>)}
                    \cup {Vector(v) : v \in Family1(sh[1], {RInt(0), Rat(1, TimeDen)})} :
       \E rnd0 \in Draws(sh, None, None, RInt(0)), rnd1 \in Draws(sh, None, None, RInt(1)) :
         vb' = [op |-> "forward_with_cond_scale", net |-> net, x |-> x,
                phoneme_ids |-> phoneme_ids, cond |-> cond, times |-> times,
                cond_scale |-> cond_scale,
                out |-> ForwardWithCondScale(net, x, phoneme_ids, cond, times,
                                             cond_scale, rnd0, rnd1)]
    /\ UNCHANGED <<mk, ctor, tf, cfm>>

InitGuidance == InitMask

NextGuidance == CallForwardWithCondScale \/ VbReturn

SpecGuidance == InitGuidance /\ [][NextGuidance]_vars

\* what a plain forward call with cond_drop_prob = 0 returns on the arguments
\* of the recorded call
PlainConditionalForward ==
    {VoiceBoxForward(vb.net, vb.x, vb.phoneme_ids, vb.cond, vb.times, RInt(0),
                     None, None, rnd).ret :
        rnd \in Draws(ShapeOf(vb.cond), None, None, RInt(0))}

(* C6: forward_with_cond_scale with cond_scale = 1 returns exactly what    *)
(* one plain forward call with cond_drop_prob = 0 returns on the same      *)
(* arguments, and makes no forward call with cond_drop_prob = 1.           *)
C6_CondScaleOneIsConditionalForward ==
    (vb.op = "forward_with_cond_scale" /\ vb.cond_scale = RInt(1)) =>
      /\ Len(vb.out.calls) = 1
      /\ \A i \in 1..Len(vb.out.calls) : vb.out.calls[i].cond_drop_prob = RInt(0)
      /\ vb.out.calls[1].cond = vb.cond
      /\ vb.out.calls[1].phoneme_ids = vb.phoneme_ids
      /\ PlainConditionalForward = {[kind |-> "logits", val |-> vb.out.ret]}

\* a call with cond_scale = 1 on conditioning that differs from null_cond
C6_Witness ==
    /\ vb.op = "forward_with_cond_scale" /\ vb.cond_scale = RInt(1)
    /\ Len(vb.out.calls) = 1
    /\ vb.out.ret = vb.out.calls[1].ret.val
    /\ \E b \in 1..Len(vb.cond) : vb.cond[b][1][1] # RInt(vb.net.null_cond)
    /\ Len(vb.cond) = 2

(* C7: forward_with_cond_scale with cond_scale = 0 returns the output of   *)
(* the forward call with cond_drop_prob = 1, in which every item's         *)
(* conditioning is null_cond and every phoneme id is null_phoneme_id; for  *)
(* every cond_scale other than 1 the result is                             *)
(* null + (cond - null) * cond_scale.                                      *)
C7_CondScaleZeroIsUnconditional ==
    (vb.op = "forward_with_cond_scale" /\ vb.cond_scale # RInt(1)) =>
      /\ Len(vb.out.calls) = 2
      /\ vb.out.calls[1].cond_drop_prob = RInt(0)
      /\ vb.out.calls[1].cond = vb.cond
      /\ vb.out.calls[1].phoneme_ids = vb.phoneme_ids
      /\ vb.out.calls[2].cond_drop_prob = RInt(1)
      /\ \A b \in 1..Len(vb.cond) : \A q \in 1..Len(vb.cond[b]) :
            /\ vb.out.calls[2].phoneme_ids[b][q] = null_phoneme_id
            /\ \A c \in 1..Len(vb.cond[b][q]) :
                  vb.out.calls[2].cond[b][q][c] = RInt(vb.net.null_cond)
      /\ \A b \in 1..Len(vb.cond) : \A q \in 1..Len(vb.cond[b]) :
            \A c \in 1..Len(vb.cond[b][q]) :
              vb.out.ret[b][q][c] =
                 RAdd(vb.out.calls[2].ret.val[b][q][c],
                      RMul(RSub(vb.out.calls[1].ret.val[b][q][c],
                                vb.out.calls[2].ret.val[b][q][c]), vb.cond_scale))
      /\ (vb.cond_scale = RInt(0) => vb.out.ret = vb.out.calls[2].ret.val)

\* cond_scale = 0 where the conditional and unconditional outputs differ
C7_Witness ==
    /\ vb.op = "forward_with_cond_scale" /\ vb.cond_scale = RInt(0)
    /\ Len(vb.out.calls) = 2
    /\ vb.out.ret = vb.out.calls[2].ret.val
    /\ vb.out.ret # vb.out.calls[1].ret.val
    /\ Len(vb.cond) = 2

----------------------------------------------------------------------------
(* ConditionalFlowMatcherWrapper.forward *)

SigmaDen == 2           \* sigma ranges over k / SigmaDen, 0 <= k < SigmaDen

Sigmas == {Rat(k, SigmaDen) : k \in 0..(SigmaDen - 1)}

\* torch.rand: uniform on [0, 1)
RandTimes == {Rat(k, TimeDen) : k \in 0..(TimeDen - 1)}

\* line 687, one element: w = (1 - (1 - sigma) * t) * x0 + t * x1
Interpolant(sigma, t, x0, x1) ==
    RAdd(RMul(RSub(RInt(1), RMul(RSub(RInt(1), sigma), t)), x0), RMul(t, x1))

\* the mutant: sigma left out of the target
Flow_NoSigma(sigma, x0, x1) == RSub(x1, x0)

\* line 689, one element: flow = x1 - (1 - sigma) * x0
Flow(sigma, x0, x1) == RSub(x1, RMul(RSub(RInt(1), sigma), x0))

\* ConditionalFlowMatcherWrapper.forward(x1, phoneme_ids, cond, mask); x0 is
\* the randn_like draw, times the rand draw, rnd the draws of the VoiceBox
\* call.  The function ends after the VoiceBox call without a return
\* statement, so the caller receives None.
CfmForward(net, sigma, cond_drop_prob, x1, phoneme_ids, cond, mask, x0, times, rnd) ==
    Only({[w |-> a.w, flow |-> a.flow,
           loss |-> VoiceBoxForward(net, a.w, phoneme_ids, cond, Vector(times),
                                    cond_drop_prob, a.flow, mask, rnd).ret,
           ret |-> None] :
            a \in {[w |-> [b \in 1..Len(x1) |-> [q \in 1..Len(x1[b]) |->
                            [c \in 1..Len(x1[b][q]) |->
                                Interpolant(sigma, times[b], x0[b][q][c], x1[b][q][c])]]],
                    flow |-> [b \in 1..Len(x1) |-> [q \in 1..Len(x1[b]) |->
                            [c \in 1..Len(x1[b][q]) |->
                                Flow(sigma, x0[b][q][c], x1[b][q][c])]]]]}})

CfmIdle == [op |-> "none"]

CallCfmForward ==
    /\ cfm = CfmIdle
    /\ \E sh \in SmallShapes, net \in Nets, sigma \in Sigmas :
       \E x1 \in {z \in Tensors3(sh, {RInt(0), RInt(1)}) : z[1][1][1] = RInt(1)},
          x0 \in {z \in Tensors3(sh, {RInt(-1), RInt(1)}) : z[sh[1]][sh[2]][sh[3]] = RInt(1)},
          times \in Family1(sh[1], RandTimes),
          phoneme_ids \in {[b \in 1..sh[1] |-> [q \in 1..sh[2] |-> 0]]},
          cond \in {Const3(sh, RInt(1))},
          mask \in Masks2(sh) \cup {None} :
       \E rnd \in Draws(sh, x1, mask, RInt(0)) :
         cfm' = [op |-> "forward", sigma |-> sigma, x1 |-> x1, x0 |-> x0,
                 times |-> times, mask |-> mask,
                 out |-> CfmForward(net, sigma, RInt(0), x1, phoneme_ids, cond, mask,
                                    x0, times, rnd)]
    /\ UNCHANGED <<mk, ctor, tf, vb>>

CfmReturn ==
    /\ cfm # CfmIdle
    /\ cfm' = CfmIdle
    /\ UNCHANGED <<mk, ctor, tf, vb>>

InitCfm == InitMask

NextCfm == CallCfmForward \/ CfmReturn

SpecCfm == InitCfm /\ [][NextCfm]_vars

CfmIndex ==
    {i \in (1..MaxElems) \X (1..MaxElems) \X (1..MaxDim) :
        /\ i[1] <= Len(cfm.x1) /\ i[2] <= Len(cfm.x1[1]) /\ i[3] <= Len(cfm.x1[1][1])}

(* C5: forward builds w = (1 - (1 - sigma) t) x0 + t x1 and                *)
(* flow = x1 - (1 - sigma) x0 for every x0, x1 and per-item t, so that w   *)
(* moves from x0 along flow (w = x0 + t * flow); with sigma = 0,           *)
(* flow = x1 - x0, w = x0 at t = 0, and the expression of w gives x1 at    *)
(* t = 1.                                                                  *)
C5_FlowMatchingPath ==
    cfm.op = "forward" =>
      /\ \A i \in CfmIndex :
           LET t == cfm.times[i[1]]
               x0 == cfm.x0[i[1]][i[2]][i[3]]
               x1 == cfm.x1[i[1]][i[2]][i[3]]
               w == cfm.out.w[i[1]][i[2]][i[3]]
               flow == cfm.out.flow[i[1]][i[2]][i[3]]
               s == cfm.sigma
           IN  \* both sides multiplied by the denominators of sigma and t
               /\ w[1] * (t[2] * s[2]) * x0[2] * x1[2] =
                    w[2] * ((t[2] * s[2] - (s[2] - s[1]) * t[1]) * x0[1] * x1[2]
                             + t[1] * s[2] * x1[1] * x0[2])
               /\ flow[1] * s[2] * x0[2] * x1[2] =
                    flow[2] * (s[2] * x1[1] * x0[2] - (s[2] - s[1]) * x0[1] * x1[2])
               /\ w = RAdd(x0, RMul(t, flow))
               /\ (s = RInt(0) => flow = RSub(x1, x0))
               /\ (s = RInt(0) /\ t = RInt(0) => w = x0)
      /\ \A x0 \in Values, x1 \in Values : Interpolant(RInt(0), RInt(1), x0, x1) = x1

\* sigma = 0 and an item drawn t = 0, whose w equals x0 and differs from x1
C5_Witness ==
    /\ cfm.op = "forward" /\ cfm.sigma = RInt(0)
    /\ Len(cfm.x1) = 2
    /\ cfm.times[1] = RInt(0) /\ cfm.times[2] # RInt(0)
    /\ cfm.out.w[1] = cfm.x0[1] /\ cfm.out.w[1] # cfm.x1[1]
    /\ cfm.out.w[2] # cfm.x0[2]
    /\ cfm.out.flow[1][1][1] = RSub(cfm.x1[1][1][1], cfm.x0[1][1][1])

----------------------------------------------------------------------------
(* VoiceBox.forward with cond_drop_prob > 0: classifier-free guidance drop *)

DropDen == 2            \* cond_drop_prob ranges over k / DropDen, 0 < k <= DropDen

DropProbs == {Rat(k, DropDen) : k \in 1..DropDen}

\* a call of forward with cond_drop_prob > 0; cond_drop_mask is the draw of
\* line 502 that the call used
CallVoiceBoxForwardDrop ==
    /\ vb = VbIdle
    /\ \E sh \in FwdShapes, net \in Nets, cond_drop_prob \in DropProbs :
       \E x \in {Const3(sh, RInt(1))},
          phoneme_ids \in {ids \in Tensors2(sh, 0..(NumPhonemeTokens - 1)) : ids[1][1] = 0},
          cond \in {z \in Tensors3(sh, {RInt(0), RInt(1)}) : z[1][1][1] = RInt(1)},
          times \in {Scalar(Rat(1, TimeDen))} :
       \E rnd \in Draws(sh, None, None, cond_drop_prob) :
         vb' = [op |-> "forward", net |-> net, x |-> x, target |-> None,
                mask_arg |-> None, phoneme_ids |-> phoneme_ids, cond |-> cond,
                cond_drop_prob |-> cond_drop_prob, cond_drop_mask |-> rnd.drop,
                out |-> VoiceBoxForward(net, x, phoneme_ids, cond, times,
                                        cond_drop_prob, None, None, rnd)]
    /\ UNCHANGED <<mk, ctor, tf, cfm>>

InitDrop == InitMask

NextDrop == CallVoiceBoxForwardDrop \/ VbReturn

SpecDrop == InitDrop /\ [][NextDrop]_vars

\* item b of the conditioning forward used is null_cond at every position
CondIsNull(b) ==
    \A q \in 1..Len(vb.out.cond[b]) : \A c \in 1..Len(vb.out.cond[b][q]) :
        vb.out.cond[b][q][c] = RInt(vb.net.null_cond)

\* every phoneme id of item b that forward used is null_phoneme_id
PhonemesAreNull(b) ==
    \A q \in 1..Len(vb.out.phoneme_ids[b]) : vb.out.phoneme_ids[b][q] = null_phoneme_id

(* C11: in forward with cond_drop_prob > 0 one decision per batch item is  *)
(* applied to both inputs: a dropped item has null_cond at every position  *)
(* of cond and null_phoneme_id at every position of phoneme_ids, an item   *)
(* not dropped keeps its cond and its phoneme ids unchanged; so the        *)
(* phoneme ids of an item are all null_phoneme_id if and only if the item  *)
(* was dropped, in which case its cond is null_cond everywhere.  With      *)
(* cond_drop_prob = 1 every item is dropped.                               *)
C11_DropAppliedPerItemToBoth ==
    (vb.op = "forward" /\ RLess(RInt(0), vb.cond_drop_prob)) =>
      /\ DOMAIN vb.cond_drop_mask = 1..Len(vb.cond)
      /\ \A b \in 1..Len(vb.cond) :
            /\ vb.cond_drop_mask[b] => (CondIsNull(b) /\ PhonemesAreNull(b))
            /\ ~vb.cond_drop_mask[b] => /\ vb.out.cond[b] = vb.cond[b]
                                        /\ vb.out.phoneme_ids[b] = vb.phoneme_ids[b]
            /\ PhonemesAreNull(b) <=> vb.cond_drop_mask[b]
            /\ PhonemesAreNull(b) => CondIsNull(b)
            /\ vb.out.cond[b] # vb.cond[b] => PhonemesAreNull(b)
      /\ (vb.cond_drop_prob = RInt(1) => \A b \in 1..Len(vb.cond) : vb.cond_drop_mask[b])

\* cond_drop_prob strictly between 0 and 1, two items of two positions: the
\* first dropped, the second kept
C11_Witness ==
    /\ vb.op = "forward" /\ RLess(RInt(0), vb.cond_drop_prob)
    /\ RLess(vb.cond_drop_prob, RInt(1))
    /\ Len(vb.cond) = 2 /\ Len(vb.cond[1]) = 2
    /\ vb.cond_drop_mask[1] /\ ~vb.cond_drop_mask[2]
    /\ vb.out.cond[1] # vb.cond[1] /\ vb.out.phoneme_ids[1] # vb.phoneme_ids[1]
    /\ CondIsNull(1) /\ PhonemesAreNull(1)
    /\ vb.out.cond[2] = vb.cond[2] /\ ~CondIsNull(2)
    /\ vb.out.phoneme_ids[2] = vb.phoneme_ids[2]

====
